---- MODULE Spec2Model ----
(***************************************************************************)
(* Model of the object helpers of src/src/index.ts: pick, omit, set        *)
(* (path-based deep update) and merge (deep merge).                        *)
(*                                                                         *)
(* JavaScript objects have identity, so the model keeps a heap: a sequence *)
(* of objects addressed by their position.  A value is a tagged pair; a    *)
(* reference is the tag "ref" with the address.  A plain object (Record)   *)
(* keeps its own enumerable properties in props; an array (Sequence) keeps *)
(* its indexed elements in elems (Hole marks a missing index of a sparse   *)
(* array) and any non-index property in props.  Strings (paths, keys) are  *)
(* sequences of one-character strings.                                     *)
(***************************************************************************)
EXTENDS Integers, Sequences, FiniteSets, TLC

VARIABLES heap, pc, op, path, keysArg, arg1, arg2, err, ret, pre, log

vars == <<heap, pc, op, path, keysArg, arg1, arg2, err, ret, pre, log>>

\* Longest path string (in characters) passed to set.
MaxPathLen == 3

\* Longest list of keys passed to pick and omit.
MaxKeys == 2

\* Most calls made one after the other on the same structures.
MaxCalls == 2

\* The characters path strings are drawn from.
PathChars == {".", "a", "0", "1"}

(***************************************************************************)
(* Values and objects                                                      *)
(***************************************************************************)
Num(n) == [t |-> "num", n |-> n]
Null == [t |-> "null", n |-> 0]
Undef == [t |-> "undef", n |-> 0]
Ref(a) == [t |-> "ref", n |-> a]
Hole == [t |-> "hole", n |-> 0]

EmptyMap == [k \in {} |-> Undef]

Rec(f) == [kind |-> "rec", elems |-> <<>>, props |-> f]
Arr(e) == [kind |-> "seq", elems |-> e, props |-> EmptyMap]

\* typeof v
TypeOf(v) ==
  CASE v.t = "num" -> "number"
    [] v.t = "undef" -> "undefined"
    [] v.t = "null" -> "object"
    [] v.t = "ref" -> "object"

\* typeof v === 'object' && v !== null
IsObj(v) == TypeOf(v) = "object" /\ v # Null

\* Array.isArray(v)
IsArray(h, v) == v.t = "ref" /\ h[v.n].kind = "seq"

\* typeof v === 'object' && v !== null && !Array.isArray(v)
IsRecord(h, v) == IsObj(v) /\ ~IsArray(h, v)

\* ToBoolean(v) is false
Falsy(v) == v = Undef \/ v = Null \/ v = Num(0)

(***************************************************************************)
(* Property keys                                                           *)
(***************************************************************************)
Digits == <<"0", "1", "2", "3", "4", "5", "6", "7", "8", "9">>

IsDigit(c) == \E i \in 1..10 : Digits[i] = c

DigitVal(c) == (CHOOSE i \in 1..10 : Digits[i] = c) - 1

RECURSIVE DecValue(_)
DecValue(k) ==
  IF k = <<>> THEN 0
  ELSE 10 * DecValue(SubSeq(k, 1, Len(k) - 1)) + DigitVal(k[Len(k)])

\* A key addresses an array element iff it is the canonical decimal form of
\* an index: digits only, no leading zero.
IsIndex(k) ==
  /\ k # <<>>
  /\ \A i \in 1..Len(k) : IsDigit(k[i])
  /\ (Len(k) > 1 => k[1] # "0")

RECURSIVE IndexKey(_)
IndexKey(i) ==
  IF i < 10 THEN <<Digits[i + 1]>>
  ELSE Append(IndexKey(i \div 10), Digits[(i % 10) + 1])

MapPut(f, k, v) == [x \in DOMAIN f \cup {k} |-> IF x = k THEN v ELSE f[x]]

\* Own enumerable keys of an object.
OwnKeys(o) ==
  {IndexKey(i - 1) : i \in {j \in 1..Len(o.elems) : o.elems[j] # Hole}}
    \cup DOMAIN o.props

HasOwn(o, k) == k \in OwnKeys(o)

\* o[k]
GetProp(o, k) ==
  IF o.kind = "seq" /\ IsIndex(k)
  THEN IF DecValue(k) < Len(o.elems) /\ o.elems[DecValue(k) + 1] # Hole
       THEN o.elems[DecValue(k) + 1]
       ELSE Undef
  ELSE IF k \in DOMAIN o.props THEN o.props[k] ELSE Undef

\* v[k] for a value that is an object
Get(h, v, k) == GetProp(h[v.n], k)

\* o[k] = v: an index key of an array replaces the element or extends the
\* array, leaving holes below the new index; any other key is a property.
PutPropInRange(o, k, v) ==
  IF o.kind = "seq" /\ IsIndex(k)
  THEN IF DecValue(k) < Len(o.elems)
       THEN [o EXCEPT !.elems[DecValue(k) + 1] = v]
       ELSE o
  ELSE [o EXCEPT !.props = MapPut(o.props, k, v)]

PutProp(o, k, v) ==
  IF o.kind = "seq" /\ IsIndex(k)
  THEN LET i == DecValue(k) IN
       IF i < Len(o.elems)
       THEN [o EXCEPT !.elems[i + 1] = v]
       ELSE [o EXCEPT !.elems =
               [j \in 1..(i + 1) |->
                  IF j <= Len(o.elems) THEN o.elems[j]
                  ELSE IF j = i + 1 THEN v ELSE Hole]]
  ELSE [o EXCEPT !.props = MapPut(o.props, k, v)]

\* [...o]: the iterator yields undefined for a hole; properties are dropped.
SpreadArray(o) ==
  Arr([j \in 1..Len(o.elems) |->
         IF o.elems[j] = Hole THEN Undef ELSE o.elems[j]])

\* { ...o }: the own enumerable properties of o.
SpreadObject(o) == Rec([k \in OwnKeys(o) |-> GetProp(o, k)])

\* { ...v } for any value: a primitive, null or undefined spreads to {}.
SpreadValue(h, v) == IF v.t = "ref" THEN SpreadObject(h[v.n]) ELSE Rec(EmptyMap)

(***************************************************************************)
(* path.split('.')                                                         *)
(***************************************************************************)
RECURSIVE Split(_)
Split(s) ==
  IF \A i \in 1..Len(s) : s[i] # "."
  THEN <<s>>
  ELSE LET d == CHOOSE i \in 1..Len(s) :
                  s[i] = "." /\ \A j \in 1..(i - 1) : s[j] # "."
       IN <<SubSeq(s, 1, d - 1)>> \o Split(SubSeq(s, d + 1, Len(s)))

(***************************************************************************)
(* set                                                                     *)
(***************************************************************************)
Thrown(e, h) == [err |-> e, val |-> Undef, heap |-> h]
Returned(v, h) == [err |-> "none", val |-> v, heap |-> h]

\* const updated = Array.isArray(current) ? [...current] : { ...current }
ShallowCopyAsObject(h, current) == SpreadObject(h[current.n])

ShallowCopyEmpty(h, current) ==
  IF IsArray(h, current) THEN Arr(<<>>) ELSE Rec(EmptyMap)

ShallowCopy(h, current) ==
  IF IsArray(h, current) THEN SpreadArray(h[current.n])
  ELSE SpreadObject(h[current.n])

\* Mutations of recursor: writing into current itself, and creating a Record
\* where an intermediate value is missing.
RECURSIVE recursorInPlace(_, _, _, _)
recursorInPlace(h, current, keys, value) ==
  IF Len(keys) = 0 THEN Returned(value, h)
  ELSE IF TypeOf(current) # "object" \/ current = Null
  THEN Thrown("InvalidIntermediate", h)
  ELSE LET sub == recursorInPlace(h, Get(h, current, Head(keys)), Tail(keys), value)
       IN IF sub.err # "none" THEN sub
          ELSE Returned(current,
                        [sub.heap EXCEPT ![current.n] = PutProp(@, Head(keys), sub.val)])

RECURSIVE recursorCreating(_, _, _, _)
recursorCreating(h, current, keys, value) ==
  IF Len(keys) = 0 THEN Returned(value, h)
  ELSE IF current # Undef /\ (TypeOf(current) # "object" \/ current = Null)
  THEN Thrown("InvalidIntermediate", h)
  ELSE LET updated == Len(h) + 1
           h1 == Append(h, IF current = Undef THEN Rec(EmptyMap)
                           ELSE ShallowCopy(h, current))
           sub == recursorCreating(h1, GetProp(h1[updated], Head(keys)),
                                   Tail(keys), value)
       IN IF sub.err # "none" THEN sub
          ELSE Returned(Ref(updated),
                        [sub.heap EXCEPT ![updated] = PutProp(@, Head(keys), sub.val)])

RECURSIVE recursor(_, _, _, _)
recursor(h, current, keys, value) ==
  IF Len(keys) = 0 THEN Returned(value, h)
  ELSE IF TypeOf(current) # "object" \/ current = Null
  THEN Thrown("InvalidIntermediate", h)
  ELSE LET firstKey == Head(keys)
           remainingKeys == Tail(keys)
           updated == Len(h) + 1
           h1 == Append(h, ShallowCopy(h, current))
           sub == recursor(h1, Get(h1, current, firstKey), remainingKeys, value)
       IN IF sub.err # "none" THEN sub
          ELSE Returned(Ref(updated),
                        [sub.heap EXCEPT ![updated] = PutProp(@, firstKey, sub.val)])

setUnguarded(h, p, obj, value) == recursor(h, obj, Split(p), value)

set(h, p, obj, value) ==
  IF p = <<>> THEN Thrown("InvalidPath", h)
  ELSE recursor(h, obj, Split(p), value)

(***************************************************************************)
(* merge                                                                   *)
(***************************************************************************)
\* The keys visited by: for (const key in b) if (b.hasOwnProperty(key)).
\* A primitive, null or undefined has no enumerable keys.
ForInOwnKeys(h, b) ==
  IF b.t = "ref" THEN {k \in OwnKeys(h[b.n]) : HasOwn(h[b.n], k)} ELSE {}

\* result[key] || {}: a falsy value is replaced by a newly allocated {}.
OrEmptyAlways(h, v) ==
  [val |-> Ref(Len(h) + 1), heap |-> Append(h, Rec(EmptyMap))]

OrEmpty(h, v) ==
  IF Falsy(v) THEN [val |-> Ref(Len(h) + 1), heap |-> Append(h, Rec(EmptyMap))]
  ELSE [val |-> v, heap |-> h]

\* typeof b[key] === 'object' && b[key] !== null && !Array.isArray(b[key])
IsMergeableArraysToo(h, bv) == TypeOf(bv) = "object" /\ bv # Null

IsMergeableNever(h, bv) == FALSE

IsMergeable(h, bv) == TypeOf(bv) = "object" /\ bv # Null /\ ~IsArray(h, bv)

\* result[key] = b[key]
OverrideKeepsA(h, result, key, bv) ==
  IF HasOwn(h[result], key) THEN h
  ELSE [h EXCEPT ![result] = PutProp(@, key, bv)]

Override(h, result, key, bv) == [h EXCEPT ![result] = PutProp(@, key, bv)]

RECURSIVE merge(_, _, _)
RECURSIVE mergeKeys(_, _, _, _)
\* The body of the for-in loop, over the keys not yet visited.  The visiting
\* order changes only the addresses of the allocations.
mergeKeys(h, result, b, ks) ==
  IF ks = {} THEN h
  ELSE LET key == CHOOSE k \in ks : TRUE
           bv == Get(h, b, key)
           h3 == IF IsMergeable(h, bv)
                 THEN LET first == OrEmpty(h, GetProp(h[result], key))
                          m == merge(first.heap, first.val, bv)
                      IN [m.heap EXCEPT ![result] = PutProp(@, key, m.val)]
                 ELSE Override(h, result, key, bv)
       IN mergeKeys(h3, result, b, ks \ {key})

merge(h, a, b) ==
  LET result == Len(h) + 1
      h1 == Append(h, SpreadValue(h, a))
  IN Returned(Ref(result), mergeKeys(h1, result, b, ForInOwnKeys(h1, b)))

(***************************************************************************)
(* pick and omit                                                           *)
(***************************************************************************)
\* key in o.  A plain object or array inherits no property whose name is
\* among the keys used here, so these are its own keys.
In(o, key) == HasOwn(o, key)

\* delete o[key]
DeleteProp(o, key) ==
  IF o.kind = "seq" /\ IsIndex(key)
  THEN IF DecValue(key) < Len(o.elems)
       THEN [o EXCEPT !.elems[DecValue(key) + 1] = Hole]
       ELSE o
  ELSE [o EXCEPT !.props = [x \in DOMAIN o.props \ {key} |-> o.props[x]]]

\* The loop of pick over the keys not yet visited, in the list's order.
RECURSIVE pickKeysAll(_, _, _, _)
pickKeysAll(h, object, obj, ks) ==
  IF ks = <<>> THEN h
  ELSE pickKeysAll([h EXCEPT ![object] = PutProp(@, Head(ks), Get(h, obj, Head(ks)))],
                   object, obj, Tail(ks))

RECURSIVE pickKeysDefined(_, _, _, _)
pickKeysDefined(h, object, obj, ks) ==
  IF ks = <<>> THEN h
  ELSE pickKeysDefined(
         IF Get(h, obj, Head(ks)) # Undef
         THEN [h EXCEPT ![object] = PutProp(@, Head(ks), Get(h, obj, Head(ks)))]
         ELSE h,
         object, obj, Tail(ks))

RECURSIVE pickKeys(_, _, _, _)
pickKeys(h, object, obj, ks) ==
  IF ks = <<>> THEN h
  ELSE LET key == Head(ks)
           h1 == IF In(h[obj.n], key)
                 THEN [h EXCEPT ![object] = PutProp(@, key, Get(h, obj, key))]
                 ELSE h
       IN pickKeys(h1, object, obj, Tail(ks))

pick(h, obj, ks) ==
  LET object == Len(h) + 1
  IN Returned(Ref(object), pickKeys(Append(h, Rec(EmptyMap)), object, obj, ks))

\* The loop of omit over the keys not yet visited, in the list's order.
RECURSIVE omitKeysButFirst(_, _, _)
omitKeysButFirst(h, object, ks) ==
  IF Len(ks) <= 1 THEN h
  ELSE omitKeysButFirst([h EXCEPT ![object] = DeleteProp(@, ks[2])],
                        object, <<Head(ks)>> \o Tail(Tail(ks)))

RECURSIVE omitKeys(_, _, _)
omitKeys(h, object, ks) ==
  IF ks = <<>> THEN h
  ELSE LET key == Head(ks)
           h1 == IF In(h[object], key)
                 THEN [h EXCEPT ![object] = DeleteProp(@, key)]
                 ELSE h
       IN omitKeys(h1, object, Tail(ks))

\* A mutation of omit: deleting from candidate itself.
omitInPlace(h, candidate, ks) ==
  Returned(candidate, omitKeys(h, candidate.n, ks))

omit(h, candidate, ks) ==
  LET object == Len(h) + 1
  IN Returned(Ref(object),
              omitKeys(Append(h, SpreadObject(h[candidate.n])), object, ks))

(***************************************************************************)
(* Deep equality                                                           *)
(***************************************************************************)
\* The content of a value at every depth, addresses left out: two values
\* are deeply equal iff their contents are equal.
RECURSIVE DeepValue(_, _)
DeepValue(h, v) ==
  IF v.t # "ref"
  THEN [t |-> v.t, n |-> v.n, elems |-> <<>>, props |-> EmptyMap]
  ELSE [t |-> h[v.n].kind, n |-> 0,
        elems |-> [i \in 1..Len(h[v.n].elems) |-> DeepValue(h, h[v.n].elems[i])],
        props |-> [k \in DOMAIN h[v.n].props |-> DeepValue(h, h[v.n].props[k])]]

DeepEqual(h1, v1, h2, v2) == DeepValue(h1, v1) = DeepValue(h2, v2)

(***************************************************************************)
(* Inputs                                                                  *)
(***************************************************************************)
ka == <<"a">>
kb == <<"b">>
kc == <<"c">>

Map1(k, v) == [x \in {k} |-> v]
Map2(k1, v1, k2, v2) == [x \in {k1, k2} |-> IF x = k1 THEN v1 ELSE v2]

\* The structures the caller holds before the call: two leaves, a container
\* over them and a root over all three.
Leaf1 == {Rec(Map1(ka, Num(1))), Rec(Map2(ka, Num(0), kc, Null)),
          Arr(<<Num(1), Undef>>)}
Leaf2 == {Rec(Map1(kb, Num(0))), Rec(EmptyMap), Arr(<<Null>>),
          Rec(Map2(<<"0">>, Undef, <<"1">>, Num(1)))}
Mid == {Rec(Map2(ka, Ref(1), kb, Ref(2))), Rec(Map1(ka, Ref(2))),
        Arr(<<Ref(1), Ref(2)>>), Rec(Map2(ka, Num(1), kb, Ref(1)))}
Top == {Rec(Map2(ka, Ref(3), kb, Ref(2))), Rec(Map2(ka, Ref(1), kc, Ref(2))),
        Arr(<<Ref(3), Ref(1)>>), Rec(Map2(ka, Null, kb, Ref(3)))}

InitHeaps == {<<l1, l2, m, t>> : l1 \in Leaf1, l2 \in Leaf2, m \in Mid, t \in Top}

RECURSIVE StringsUpTo(_)
StringsUpTo(n) ==
  IF n = 0 THEN {<<>>}
  ELSE LET S == StringsUpTo(n - 1)
       IN S \cup {Append(s, c) : s \in {x \in S : Len(x) = n - 1}, c \in PathChars}

Paths == StringsUpTo(MaxPathLen)

Refs(h) == {Ref(i) : i \in 1..Len(h)}

\* The keys named in the lists passed to pick and omit.
ListedKeys == {ka, kb, <<"0">>}

RECURSIVE ListsUpTo(_)
ListsUpTo(n) ==
  IF n = 0 THEN {<<>>}
  ELSE LET S == ListsUpTo(n - 1)
       IN S \cup {Append(l, k) : l \in {x \in S : Len(x) = n - 1}, k \in ListedKeys}

KeyLists == ListsUpTo(MaxKeys)

\* Any value may be passed as the root and as the new value of set.
Roots(h) == Refs(h) \cup {Null, Num(1)}
NewValues(h) == {Num(1), Undef, Ref(1)}

(***************************************************************************)
(* The state machine: the caller builds its structures, then makes a call. *)
(***************************************************************************)
Init ==
  /\ heap \in InitHeaps
  /\ pc = "idle"
  /\ op = "none"
  /\ path = <<>>
  /\ keysArg = <<>>
  /\ arg1 = Undef
  /\ arg2 = Undef
  /\ err = "none"
  /\ ret = Undef
  /\ pre = heap
  /\ log = <<>>

\* What the caller knows of a call once it is over: its arguments, its
\* outcome, and the content its arguments and its result had at that time.
Entry(name, p, ks, x, y, r) ==
  [op |-> name, path |-> p, keys |-> ks, arg1 |-> x, arg2 |-> y,
   err |-> r.err, ret |-> r.val,
   in1 |-> DeepValue(heap, x), in2 |-> DeepValue(heap, y),
   out |-> DeepValue(r.heap, r.val)]

Finish(name, p, ks, x, y, r) ==
  /\ pc' = "done"
  /\ op' = name
  /\ path' = p
  /\ keysArg' = ks
  /\ log' = Append(log, Entry(name, p, ks, x, y, r))
  /\ arg1' = x
  /\ arg2' = y
  /\ err' = r.err
  /\ ret' = r.val
  /\ heap' = r.heap
  /\ pre' = heap

SetCall(P, R, V) ==
  \E p \in P, obj \in R, value \in V :
    Finish("set", p, <<>>, obj, value, set(heap, p, obj, value))

MergeCall ==
  \E a \in Refs(heap), b \in Refs(heap) :
    Finish("merge", <<>>, <<>>, a, b, merge(heap, a, b))

CallSet == pc = "idle" /\ SetCall(Paths, Roots(heap), NewValues(heap))

CallMerge == pc = "idle" /\ MergeCall

CallPick ==
  /\ pc = "idle"
  /\ \E obj \in Refs(heap), ks \in KeyLists :
       Finish("pick", <<>>, ks, obj, Undef, pick(heap, obj, ks))

CallOmit ==
  /\ pc = "idle"
  /\ \E candidate \in Refs(heap), ks \in KeyLists :
       Finish("omit", <<>>, ks, candidate, Undef, omit(heap, candidate, ks))

\* After pick(r, K) the caller takes omit(r, K) ...
ThenOmit ==
  /\ pc = "done"
  /\ op = "pick"
  /\ Len(log) = 1
  /\ Finish("omit", <<>>, keysArg, arg1, Undef, omit(heap, arg1, keysArg))

\* ... and merges the two results: merge(pick(r, K), omit(r, K)).
ThenMerge ==
  /\ pc = "done"
  /\ op = "omit"
  /\ Len(log) = 2
  /\ Finish("merge", <<>>, <<>>, log[1].ret, log[2].ret,
            merge(heap, log[1].ret, log[2].ret))

Next == CallSet \/ CallMerge \/ CallPick \/ CallOmit \/ ThenOmit \/ ThenMerge

Spec == Init /\ [][Next]_vars

(***************************************************************************)
(* Calls made one after the other: the arguments of a call may be any      *)
(* structure the caller holds, results of earlier calls included.          *)
(***************************************************************************)
SeqHeaps ==
  {<<Rec(Map2(ka, Num(0), kc, Null)), Arr(<<Null>>),
     Rec(Map2(ka, Ref(1), kb, Ref(2))), Rec(Map2(ka, Ref(3), kb, Ref(2)))>>,
   <<Rec(Map1(ka, Num(1))), Rec(Map1(kb, Num(0))),
     Arr(<<Ref(1), Ref(2)>>), Rec(Map2(ka, Ref(3), kb, Ref(2)))>>}

SeqPaths == {<<"a">>, <<"a", ".", "a">>, <<"a", ".", "0">>}

InitSeq == Init /\ heap \in SeqHeaps

SeqValues == {Num(1), Ref(1)}

NextSet == Len(log) < MaxCalls /\ SetCall(SeqPaths, Refs(heap), SeqValues)

NextMerge == Len(log) < MaxCalls /\ MergeCall

NextSeq == NextSet \/ NextMerge

SpecSeq == InitSeq /\ [][NextSeq]_vars

(***************************************************************************)
(* Observations used by the properties                                     *)
(***************************************************************************)
Stuck == [t |-> "stuck", n |-> 0]

\* Reading v[s1][s2]...[sn]; Stuck when a value on the way is no object.
RECURSIVE ReadPath(_, _, _)
ReadPath(h, v, keys) ==
  IF keys = <<>> THEN v
  ELSE IF v.t # "ref" THEN Stuck
  ELSE ReadPath(h, Get(h, v, Head(keys)), Tail(keys))

Segs == Split(path)

\* The value k segments down the path, in the root passed to set and in the
\* structure set returned.
OldAt(k) == ReadPath(pre, arg1, SubSeq(Segs, 1, k))
NewAt(k) == ReadPath(heap, ret, SubSeq(Segs, 1, k))

SetDone == pc = "done" /\ op = "set"
SetOk == SetDone /\ err = "none"
MergeDone == pc = "done" /\ op = "merge"
MergeOfRecords == MergeDone /\ IsRecord(pre, arg1) /\ IsRecord(pre, arg2)

KeysOf(h, v) == IF v.t = "ref" THEN OwnKeys(h[v.n]) ELSE {}
Fresh(v) == v.t = "ref" /\ v.n > Len(pre)

(***************************************************************************)
(* C1: set and merge never mutate their arguments: the root passed to set, *)
(* and a and b passed to merge, have after the call (returned or thrown)   *)
(* the content they had before it, at every depth.                         *)
(***************************************************************************)
C1_Immutability ==
  pc = "done" =>
    /\ DeepEqual(heap, arg1, pre, arg1)
    /\ DeepEqual(heap, arg2, pre, arg2)
    /\ \A i \in 1..Len(pre) : heap[i] = pre[i]

\* A set that returned a structure whose content differs from the root's.
C1_Witness ==
  /\ SetOk
  /\ Len(Segs) = 2
  /\ ~DeepEqual(heap, ret, pre, arg1)

(***************************************************************************)
(* C2: whenever set returns a structure, reading it back along the path's  *)
(* segments yields exactly the value that was set.                         *)
(***************************************************************************)
C2_RoundTrip == SetOk => NewAt(Len(Segs)) = arg2

\* A two-segment set through an array index that returned.
C2_Witness ==
  /\ SetOk
  /\ Len(Segs) = 2
  /\ IsArray(pre, OldAt(1))
  /\ IsIndex(Segs[2])
  /\ arg2 = Ref(1)

C4_PathCopied ==
  SetOk =>
    \A k \in 0..(Len(Segs) - 1) :
      /\ Fresh(NewAt(k))
      /\ NewAt(k) # OldAt(k)
      /\ heap[NewAt(k).n].kind = pre[OldAt(k).n].kind

\* A successful one-segment set on an array.
C4_Witness ==
  /\ SetOk
  /\ Len(Segs) = 1
  /\ IsArray(pre, arg1)

(***************************************************************************)
(* C5: set with the empty path throws InvalidPathError, returns nothing    *)
(* and leaves the root unchanged; a non-empty path never throws it.        *)
(***************************************************************************)
C5_EmptyPath ==
  SetDone =>
    /\ (path = <<>>) <=> (err = "InvalidPath")
    /\ path = <<>> => (ret = Undef /\ heap = pre)

\* The empty path on a root that is a Record.
C5_Witness ==
  /\ SetDone
  /\ path = <<>>
  /\ IsRecord(pre, arg1)

(***************************************************************************)
(* C6: for a non-empty path of n segments, set throws                      *)
(* InvalidIntermediateError exactly when the root, or the value reached    *)
(* after k < n segments, is no object (a primitive, null or a missing      *)
(* key); otherwise it returns, and the last segment is a key of the        *)
(* container it was set in, whether or not it was one before.              *)
(***************************************************************************)
C6_IntermediateBoundary ==
  (SetDone /\ path # <<>>) =>
    /\ (err = "InvalidIntermediate") <=>
         (\E k \in 0..(Len(Segs) - 1) : OldAt(k).t # "ref")
    /\ err \in {"none", "InvalidIntermediate"}
    /\ err = "none" =>
         Segs[Len(Segs)] \in KeysOf(heap, NewAt(Len(Segs) - 1))

\* A set that created a key missing from an inner Record.
C6_Witness ==
  /\ SetOk
  /\ Len(Segs) = 2
  /\ IsRecord(pre, OldAt(1))
  /\ Segs[2] \notin KeysOf(pre, OldAt(1))

\* a[k] and b[k] of the merged records, and the result's value at k.
InA(k) == Get(pre, arg1, k)
InB(k) == Get(pre, arg2, k)
Out(k) == Get(heap, ret, k)
KeysA == KeysOf(pre, arg1)
KeysB == KeysOf(pre, arg2)

(***************************************************************************)
(* C7: merge of two Records returns a new Record whose keys are the keys   *)
(* of a and of b together; a key of b whose value is a scalar, null,       *)
(* undefined or a Sequence holds b's very value (a Sequence is never mixed *)
(* with a's), and a key of a alone holds a's value.                        *)
(***************************************************************************)
C7_MergeKeysAndOverride ==
  MergeOfRecords =>
    /\ err = "none"
    /\ Fresh(ret)
    /\ heap[ret.n].kind = "rec"
    /\ KeysOf(heap, ret) = KeysA \cup KeysB
    /\ \A k \in KeysB : ~IsRecord(pre, InB(k)) => Out(k) = InB(k)
    /\ \A k \in KeysA \ KeysB : Out(k) = InA(k)

\* A merge where b's Sequence replaces a's different Sequence, b's scalar
\* some Record of a, and a has a key of its own.
C7_Witness ==
  /\ MergeOfRecords
  /\ \E k \in KeysA \cap KeysB :
       IsArray(pre, InA(k)) /\ IsArray(pre, InB(k)) /\ InA(k) # InB(k)
  /\ \E k \in KeysA \ KeysB : TRUE

\* r is the deep merge of av and bv: a Record with the keys of both, where
\* a key of bv holding a Record holds the deep merge of av's value (nothing,
\* when av has none) with it, any other key of bv holds bv's value and a key
\* of av alone holds av's value.  A value av that is no object has no keys.
RECURSIVE IsMergeOf(_, _, _)
IsMergeOf(r, av, bv) ==
  /\ r.t = "ref"
  /\ heap[r.n].kind = "rec"
  /\ KeysOf(heap, r) = KeysOf(pre, av) \cup KeysOf(pre, bv)
  /\ \A k \in KeysOf(pre, bv) :
       IF IsRecord(pre, Get(pre, bv, k))
       THEN IsMergeOf(Get(heap, r, k),
                      IF k \in KeysOf(pre, av) THEN Get(pre, av, k) ELSE Undef,
                      Get(pre, bv, k))
       ELSE DeepEqual(heap, Get(heap, r, k), pre, Get(pre, bv, k))
  /\ \A k \in KeysOf(pre, av) \ KeysOf(pre, bv) :
       DeepEqual(heap, Get(heap, r, k), pre, Get(pre, av, k))

(***************************************************************************)
(* C8: for every key of both a and b whose value in b is a Record, the     *)
(* result holds the deep merge of a's value with b's value, at every       *)
(* depth: nested keys of a's Record alone are kept, nested keys of b's     *)
(* Record are added or override.                                           *)
(***************************************************************************)
C8_DeepMerge ==
  MergeOfRecords =>
    \A k \in KeysA \cap KeysB :
      IsRecord(pre, InB(k)) => IsMergeOf(Out(k), InA(k), InB(k))

\* A merge that recurses twice over different Records: under a key of both,
\* a's Record has a key b's Record lacks, and under another key of both of
\* these b again holds a Record.
C8_Witness ==
  /\ MergeOfRecords
  /\ arg1 # arg2
  /\ \E k \in KeysA \cap KeysB :
       /\ IsRecord(pre, InA(k))
       /\ IsRecord(pre, InB(k))
       /\ InA(k) # InB(k)
       /\ KeysOf(pre, InA(k)) \ KeysOf(pre, InB(k)) # {}
       /\ \E j \in KeysOf(pre, InA(k)) \cap KeysOf(pre, InB(k)) :
            IsRecord(pre, Get(pre, InB(k), j))

(***************************************************************************)
(* C9 as claimed: every key of only one of a and b holds in the result the *)
(* very value (the same reference) it has in that input.                   *)
(***************************************************************************)
C9_Claimed ==
  MergeOfRecords =>
    /\ \A k \in KeysA \ KeysB : Out(k) = InA(k)
    /\ \A k \in KeysB \ KeysA : Out(k) = InB(k)

(***************************************************************************)
(* C9 amended: a key of a alone holds a's very value; a key of b alone     *)
(* holds b's very value when that is a scalar, null, undefined or a        *)
(* Sequence, and a newly allocated Record deeply equal to b's value when   *)
(* that is a Record.                                                       *)
(***************************************************************************)
C9_SharingAmended ==
  MergeOfRecords =>
    /\ \A k \in KeysA \ KeysB : Out(k) = InA(k)
    /\ \A k \in KeysB \ KeysA :
         IF IsRecord(pre, InB(k))
         THEN /\ Fresh(Out(k))
              /\ heap[Out(k).n].kind = "rec"
              /\ DeepEqual(heap, Out(k), pre, InB(k))
         ELSE Out(k) = InB(k)

\* A merge where b alone has a key holding a Record and a alone has a key
\* holding a reference.
C9_Witness ==
  /\ MergeOfRecords
  /\ \E k \in KeysB \ KeysA : IsRecord(pre, InB(k))
  /\ \E k \in KeysA \ KeysB : InA(k).t = "ref"

(***************************************************************************)
(* C10: merging a Record with itself returns a Record deeply equal to it.  *)
(***************************************************************************)
C10_Idempotent ==
  (MergeOfRecords /\ arg1 = arg2) => DeepEqual(heap, ret, pre, arg1)

\* A Record merged with itself that holds a Sequence, and a Record that
\* itself holds a Record.
C10_Witness ==
  /\ MergeOfRecords
  /\ arg1 = arg2
  /\ \E k \in KeysA : IsArray(pre, InA(k))
  /\ \E k \in KeysA :
       IsRecord(pre, InA(k)) /\
         \E j \in KeysOf(pre, InA(k)) : IsRecord(pre, Get(pre, InA(k), j))

PickDone == pc = "done" /\ op = "pick"
OmitDone == pc = "done" /\ op = "omit"
Listed == {keysArg[i] : i \in 1..Len(keysArg)}

\* The caller has computed merge(pick(r, K), omit(r, K)).
Complemented ==
  /\ Len(log) = 3
  /\ log[1].op = "pick"
  /\ log[2].op = "omit"
  /\ log[3].op = "merge"
  /\ log[2].arg1 = log[1].arg1
  /\ log[2].keys = log[1].keys
  /\ log[3].arg1 = log[1].ret
  /\ log[3].arg2 = log[2].ret

(***************************************************************************)
(* C11: for a Record r and a list of keys K, merge(pick(r, K), omit(r, K)) *)
(* is deeply equal to r; the keys of pick(r, K) and of omit(r, K) are      *)
(* disjoint and together are the keys of r.                                *)
(***************************************************************************)
C11_PickOmitComplement ==
  (Complemented /\ IsRecord(heap, log[1].arg1)) =>
    /\ DeepEqual(heap, ret, heap, log[1].arg1)
    /\ DeepValue(heap, ret) = log[1].in1
    /\ KeysOf(heap, log[1].ret) \cap KeysOf(heap, log[2].ret) = {}
    /\ KeysOf(heap, log[1].ret) \cup KeysOf(heap, log[2].ret)
         = KeysOf(heap, log[1].arg1)

\* K is a proper, non-empty part of r's keys; r holds a Record outside K
\* and a key of K holds undefined or a reference.
C11_Witness ==
  /\ Complemented
  /\ IsRecord(heap, log[1].arg1)
  /\ KeysOf(heap, log[1].ret) # {}
  /\ KeysOf(heap, log[2].ret) # {}
  /\ \A i \in 1..Len(log[1].keys) : log[1].keys[i] \in KeysOf(heap, log[1].arg1)
  /\ \E k \in KeysOf(heap, log[2].ret) : IsRecord(heap, Get(heap, log[2].ret, k))
  /\ \E k \in KeysOf(heap, log[1].ret) : Get(heap, log[1].ret, k).t \in {"undef", "ref"}

(***************************************************************************)
(* C12: pick returns a new Record whose keys are exactly the keys of the   *)
(* source named in the list, each with the source's value (an undefined    *)
(* value included); a listed key the source lacks makes no entry, the      *)
(* result depends only on which keys are listed, not on their order or     *)
(* repetition, and the empty list gives the empty Record.                  *)
(***************************************************************************)
C12_PickSelects ==
  PickDone =>
    /\ err = "none"
    /\ Fresh(ret)
    /\ heap[ret.n].kind = "rec"
    /\ KeysOf(heap, ret) = KeysOf(pre, arg1) \cap Listed
    /\ \A k \in KeysOf(heap, ret) : Get(heap, ret, k) = Get(pre, arg1, k)
    /\ keysArg = <<>> => heap[ret.n] = Rec(EmptyMap)

\* A pick whose list names a key the source lacks and a key the source
\* holds with the value undefined.
C12_Witness ==
  /\ PickDone
  /\ IsRecord(pre, arg1)
  /\ \E k \in Listed : k \notin KeysOf(pre, arg1)
  /\ \E k \in Listed : k \in KeysOf(pre, arg1) /\ Get(pre, arg1, k) = Undef

(***************************************************************************)
(* C13: omit returns a new Record whose keys are exactly the keys of the   *)
(* source not named in the list, each with the source's value; a listed    *)
(* key the source lacks changes nothing, the empty list gives a Record     *)
(* deeply equal to a Record source, and a list of all keys the empty       *)
(* Record.                                                                 *)
(***************************************************************************)
C13_OmitRemoves ==
  OmitDone =>
    /\ err = "none"
    /\ Fresh(ret)
    /\ heap[ret.n].kind = "rec"
    /\ KeysOf(heap, ret) = KeysOf(pre, arg1) \ Listed
    /\ \A k \in KeysOf(heap, ret) : Get(heap, ret, k) = Get(pre, arg1, k)
    /\ (keysArg = <<>> /\ IsRecord(pre, arg1)) => DeepEqual(heap, ret, pre, arg1)
    /\ KeysOf(pre, arg1) \subseteq Listed => heap[ret.n] = Rec(EmptyMap)

\* An omit whose list names exactly the two keys of a Record.
C13_Witness ==
  /\ OmitDone
  /\ IsRecord(pre, arg1)
  /\ Len(keysArg) = 2
  /\ keysArg[1] # keysArg[2]
  /\ KeysOf(pre, arg1) = Listed

(***************************************************************************)
(* C14: pick and omit leave the source as it was (same keys, same values)  *)
(* and return a newly allocated Record, another object than the source,    *)
(* each of whose values is the very value (the same reference) the source  *)
(* holds at that key.                                                      *)
(***************************************************************************)
C14_ShallowNoMutation ==
  (PickDone \/ OmitDone) =>
    /\ Fresh(ret)
    /\ ret # arg1
    /\ \A i \in 1..Len(pre) : heap[i] = pre[i]
    /\ KeysOf(heap, arg1) = KeysOf(pre, arg1)
    /\ DeepEqual(heap, arg1, pre, arg1)
    /\ \A k \in KeysOf(heap, ret) : Get(heap, ret, k) = Get(heap, arg1, k)

\* An omit that removed a key of a Record and kept a key holding a
\* reference.
C14_Witness ==
  /\ OmitDone
  /\ IsRecord(pre, arg1)
  /\ KeysOf(heap, ret) # KeysOf(pre, arg1)
  /\ \E k \in KeysOf(heap, ret) : Get(heap, ret, k).t = "ref"

(***************************************************************************)
(* C15: in any sequence of set and merge calls, where a call may take the  *)
(* results of earlier calls, every argument and every result of every call *)
(* made so far still has the content it had when it was passed or          *)
(* returned.                                                               *)
(***************************************************************************)
C15_Isolation ==
  \A i \in 1..Len(log) :
    /\ DeepValue(heap, log[i].arg1) = log[i].in1
    /\ DeepValue(heap, log[i].arg2) = log[i].in2
    /\ DeepValue(heap, log[i].ret) = log[i].out

\* A second call that took the first call's result, returned a structure of
\* other content, and shares a sub-structure with the first call's input.
C15_Witness ==
  /\ Len(log) = 2
  /\ log[1].err = "none"
  /\ log[2].err = "none"
  /\ log[1].ret.t = "ref"
  /\ log[2].arg1 = log[1].ret
  /\ log[2].out # log[1].out
  /\ log[1].arg1.t = "ref"
  /\ \E k \in KeysOf(heap, ret) :
       Get(heap, ret, k).t = "ref" /\ Get(heap, ret, k) = Get(heap, log[1].arg1, k)

====
